---- MODULE Spec2Model ----
(* Model of src/task4.py: a PuLP script that builds a two-variable integer  *)
(* linear program, solves it once and prints a slack / bottleneck report.   *)
(* The coefficients the script hard-codes are one element of a bounded set  *)
(* of instances, so that the build -> solve -> report pipeline is also      *)
(* exercised on infeasible, unbounded, tied and non-binding problems.       *)
(* problem.solve() is an external solver: it is modelled by what an exact   *)
(* integer-programming solver returns (status and an optimal point); the    *)
(* names PuLP stores for the constraints are the ones its name setter makes *)
(* of the strings the script passes (illegal characters become "_"); the    *)
(* variable values it leaves behind at a non-Optimal status are solver      *)
(* dependent and modelled as a nondeterministic choice.                     *)
EXTENDS Integers, Sequences, FiniteSets

VARIABLES pc, inst, problem, values, out, binding_constraints

vars == <<pc, inst, problem, values, out, binding_constraints>>

(* ---------------- bounds of the model ---------------- *)

\* Largest value a solver is taken to leave in a variable when it stops
\* without an optimum.
MaxLeftover == 2

(* ---------------- program constants ---------------- *)

\* 1e-6 as the fraction 1 / TolDenominator
TolDenominator == 1000000

\* varValue of an LpVariable that no solve has assigned (Python None)
None == -1

\* Names are sequences of tokens; the separators PuLP rewrites are tokens of
\* their own.
RawName == <<"Raw", " ", "Material", " ", "Constraint">>
LaborName == <<"Labor", " ", "Hours", " ", "Constraint">>
MachineName == <<"Machine", " ", "Hours", " ", "Constraint">>

\* The characters PuLP does not allow in a name: "-+[] ->/"
IllegalChars == {"-", "+", "[", "]", " ", ">", "/"}

\* The name PuLP stores: every illegal character replaced by "_"
LpName(name) ==
  [i \in 1 .. Len(name) |-> IF name[i] \in IllegalChars THEN "_" ELSE name[i]]

ScriptObjective == <<50, 60>>
ScriptRaw == [coefs |-> <<2, 3>>, cap |-> 120]
ScriptLabor == [coefs |-> <<3, 2>>, cap |-> 100]
ScriptMachine == [coefs |-> <<1, 1>>, cap |-> 45]

(* ---------------- instances the pipeline is run on ---------------- *)

ObjectiveChoices == {ScriptObjective, <<50, 50>>, <<50, 0>>}
RawChoices == {ScriptRaw, [coefs |-> <<0, 3>>, cap |-> 120]}
LaborChoices == {ScriptLabor, [coefs |-> <<0, 2>>, cap |-> 100]}
MachineChoices ==
  {ScriptMachine,
   [coefs |-> <<1, 1>>, cap |-> 40],
   [coefs |-> <<1, 1>>, cap |-> 0],
   [coefs |-> <<1, 1>>, cap |-> 0 - 1],
   [coefs |-> <<0, 1>>, cap |-> 45]}

Instances ==
  [objective : ObjectiveChoices, raw : RawChoices,
   labor : LaborChoices, machine : MachineChoices]

(* ---------------- PuLP objects ---------------- *)

\* problem += a * x_A + b * x_B <= cap, name: stored under the name PuLP
\* makes of it, as expression a*x_A + b*x_B with constant -cap
LpConstraintLE(name, coefs, cap) ==
  [name |-> LpName(name), coefs |-> coefs, constant |-> 0 - cap]

\* pulp.value of a linear expression at the variables' values
ExprValue(coefs, vals) == coefs[1] * vals[1] + coefs[2] * vals[2]

Abs(n) == IF n < 0 THEN 0 - n ELSE n

(* ---------------- the solver ---------------- *)

\* The variables have no upper bound. A variable with a coefficient >= 1 in a
\* constraint whose other coefficients are >= 0 is at most that constraint's
\* capacity, and a variable with no such constraint leaves the problem
\* unbounded or does not occur in the instances, so every feasible point of a
\* bounded problem lies within the largest capacity.
SearchBound(cons) ==
  LET caps == {0} \cup {0 - cons[i].constant : i \in 1 .. Len(cons)}
  IN CHOOSE m \in caps : \A c \in caps : c <= m

\* lowBound = 0, cat = 'Integer'
Points(cons) == (0 .. SearchBound(cons)) \X (0 .. SearchBound(cons))

FeasibleBug(p, cons) ==
  \A i \in 1 .. (Len(cons) - 1) : ExprValue(cons[i].coefs, p) + cons[i].constant <= 0

Feasible(p, cons) ==
  \A i \in 1 .. Len(cons) : ExprValue(cons[i].coefs, p) + cons[i].constant <= 0

FeasiblePointsBug(cons) ==
  {p \in Points(cons) :
     \A i \in 1 .. Len(cons) : ExprValue(cons[i].coefs, p) + cons[i].constant < 0}

FeasiblePoints(cons) == {p \in Points(cons) : Feasible(p, cons)}

\* directions along which the feasible region is unbounded and profit grows
ImprovingRays(obj, cons) ==
  {d \in (0 .. 1) \X (0 .. 1) :
     /\ ExprValue(obj, d) > 0
     /\ \A i \in 1 .. Len(cons) : ExprValue(cons[i].coefs, d) <= 0}

BestBug(vs) == CHOOSE m \in vs : \A v \in vs : m <= v

\* LpMaximize: the largest objective value
Best(vs) == CHOOSE m \in vs : \A v \in vs : v <= m

SolveStatusBug(obj, cons) ==
  IF FeasiblePoints(cons) = {} THEN "NotSolved"
  ELSE IF ImprovingRays(obj, cons) # {} THEN "Unbounded"
  ELSE "Optimal"

SolveStatus(obj, cons) ==
  IF FeasiblePoints(cons) = {} THEN "Infeasible"
  ELSE IF ImprovingRays(obj, cons) # {} THEN "Unbounded"
  ELSE "Optimal"

OptimalPoints(obj, cons) ==
  LET fp == FeasiblePoints(cons)
      best == Best({ExprValue(obj, p) : p \in fp})
  IN {p \in fp : ExprValue(obj, p) = best}

\* values a solver may leave in the variables when it did not reach Optimal
LeftoverPoints == (0 .. MaxLeftover) \X (0 .. MaxLeftover)

SolvedPoints(obj, cons) ==
  IF SolveStatus(obj, cons) = "Optimal" THEN OptimalPoints(obj, cons)
  ELSE LeftoverPoints

(* ---------------- the reporter's computations ---------------- *)

LhsValueBug(c, vals) == c.coefs[1] * vals[1] + c.coefs[1] * vals[2]

LhsValue(c, vals) == ExprValue(c.coefs, vals)

RhsValueBug(c) == c.constant

RhsValue(c) == c.constant * (0 - 1)

Slack(c, vals) == RhsValue(c) - LhsValue(c, vals)

\* abs(slack) < 1e-6 in the constraint analysis loop
AnalysisBinding(slack) == Abs(slack) * TolDenominator < 1

CollectBindingBug(slack) == Abs(slack) < 2

\* abs(slack) < 1e-6 in the loop that builds binding_constraints
CollectBinding(slack) == Abs(slack) * TolDenominator < 1

Line(kind, name, val, rhs, slack, cls) ==
  [kind |-> kind, name |-> name, val |-> val, rhs |-> rhs,
   slack |-> slack, cls |-> cls]

AnalysisLine(c, vals) ==
  Line("analysis", c.name, LhsValue(c, vals), RhsValue(c), Slack(c, vals),
       IF AnalysisBinding(Slack(c, vals)) THEN "BINDING" ELSE "SLACK")

RECURSIVE AnalysisLines(_, _)
AnalysisLines(cons, vals) ==
  IF cons = <<>> THEN <<>>
  ELSE <<AnalysisLine(Head(cons), vals)>> \o AnalysisLines(Tail(cons), vals)

RECURSIVE BindingNames(_, _)
BindingNames(cons, vals) ==
  IF cons = <<>> THEN <<>>
  ELSE (IF CollectBinding(Slack(Head(cons), vals)) THEN <<Head(cons).name>> ELSE <<>>)
       \o BindingNames(Tail(cons), vals)

Contains(seq, x) == \E i \in 1 .. Len(seq) : seq[i] = x

SpecificallyLines(vals) ==
  << Line("specifically", "Raw Material", ExprValue(<<2, 3>>, vals), 120,
          120 - ExprValue(<<2, 3>>, vals), ""),
     Line("specifically", "Labor Hours", ExprValue(<<3, 2>>, vals), 100,
          100 - ExprValue(<<3, 2>>, vals), ""),
     Line("specifically", "Machine Hours", ExprValue(<<1, 1>>, vals), 45,
          45 - ExprValue(<<1, 1>>, vals), "") >>

RecommendationLines(binding) ==
  (IF Contains(binding, RawName)
     THEN <<Line("recommendation", "raw", 0, 0, 0, "")>> ELSE <<>>)
  \o (IF Contains(binding, LaborName)
     THEN <<Line("recommendation", "labor", 0, 0, 0, "")>> ELSE <<>>)
  \o (IF Contains(binding, MachineName)
     THEN <<Line("recommendation", "machine", 0, 0, 0, "")>> ELSE <<>>)
  \o (IF binding = <<>>
     THEN <<Line("recommendation", "fallback", 0, 0, 0, "")>> ELSE <<>>)

(* ---------------- the script, statement by statement ---------------- *)

\* problem = pulp.LpProblem(..., pulp.LpMaximize)
Init ==
  /\ pc = "define_variables"
  /\ inst \in Instances
  /\ problem = [status |-> "NotSolved", objective |-> <<>>, constraints |-> <<>>]
  /\ values = <<None, None>>
  /\ out = <<>>
  /\ binding_constraints = <<>>

DefineVariables ==
  /\ pc = "define_variables"
  /\ values' = <<None, None>>
  /\ pc' = "add_objective"
  /\ UNCHANGED <<inst, problem, out, binding_constraints>>

AddObjective ==
  /\ pc = "add_objective"
  /\ problem' = [problem EXCEPT !.objective = inst.objective]
  /\ pc' = "add_raw"
  /\ UNCHANGED <<inst, values, out, binding_constraints>>

AddRawMaterial ==
  /\ pc = "add_raw"
  /\ problem' = [problem EXCEPT !.constraints =
                   Append(@, LpConstraintLE(RawName, inst.raw.coefs, inst.raw.cap))]
  /\ pc' = "add_labor"
  /\ UNCHANGED <<inst, values, out, binding_constraints>>

AddLaborHours ==
  /\ pc = "add_labor"
  /\ problem' = [problem EXCEPT !.constraints =
                   Append(@, LpConstraintLE(LaborName, inst.labor.coefs, inst.labor.cap))]
  /\ pc' = "add_machine"
  /\ UNCHANGED <<inst, values, out, binding_constraints>>

AddMachineHours ==
  /\ pc = "add_machine"
  /\ problem' = [problem EXCEPT !.constraints =
                   Append(@, LpConstraintLE(MachineName, inst.machine.coefs, inst.machine.cap))]
  /\ pc' = "solve"
  /\ UNCHANGED <<inst, values, out, binding_constraints>>

Solve ==
  /\ pc = "solve"
  /\ problem' = [problem EXCEPT !.status = SolveStatus(problem.objective, problem.constraints)]
  /\ values' \in SolvedPoints(problem.objective, problem.constraints)
  /\ pc' = "print_status"
  /\ UNCHANGED <<inst, out, binding_constraints>>

PrintStatus ==
  /\ pc = "print_status"
  /\ out' = Append(out, Line("status", problem.status, 0, 0, 0, ""))
  /\ pc' = "print_values"
  /\ UNCHANGED <<inst, problem, values, binding_constraints>>

PrintValues ==
  /\ pc = "print_values"
  /\ out' = out \o << Line("variable", "Product_A", values[1], 0, 0, ""),
                      Line("variable", "Product_B", values[2], 0, 0, "") >>
  /\ pc' = "print_profit"
  /\ UNCHANGED <<inst, problem, values, binding_constraints>>

PrintProfit ==
  /\ pc = "print_profit"
  /\ out' = Append(out, Line("objective", "Maximum Total Profit",
                             ExprValue(problem.objective, values), 0, 0, ""))
  /\ pc' = "constraint_analysis"
  /\ UNCHANGED <<inst, problem, values, binding_constraints>>

ConstraintAnalysisBug ==
  /\ pc = "constraint_analysis"
  /\ out' = out \o AnalysisLines(problem.constraints, values)
  /\ problem' = [problem EXCEPT !.constraints =
                   [i \in 1 .. Len(@) |-> [@[i] EXCEPT !.constant = @ * (0 - 1)]]]
  /\ pc' = "detailed_insights"
  /\ UNCHANGED <<inst, values, binding_constraints>>

ConstraintAnalysis ==
  /\ pc = "constraint_analysis"
  /\ out' = out \o AnalysisLines(problem.constraints, values)
  /\ pc' = "detailed_insights"
  /\ UNCHANGED <<inst, problem, values, binding_constraints>>

DetailedInsights ==
  /\ pc = "detailed_insights"
  /\ out' = out \o << Line("insight_plan", "Product_A", values[1], values[2], 0, ""),
                      Line("insight_profit", "Total Profit",
                           ExprValue(problem.objective, values), 0, 0, "") >>
  /\ pc' = "collect_binding"
  /\ UNCHANGED <<inst, problem, values, binding_constraints>>

CollectBindingConstraints ==
  /\ pc = "collect_binding"
  /\ binding_constraints' = BindingNames(problem.constraints, values)
  /\ pc' = "bottlenecks"
  /\ UNCHANGED <<inst, problem, values, out>>

Bottlenecks ==
  /\ pc = "bottlenecks"
  /\ out' = Append(out,
              IF binding_constraints # <<>>
                THEN Line("bottlenecks", "", Len(binding_constraints), 0, 0, "")
                ELSE Line("no_bottlenecks", "", 0, 0, 0, ""))
  /\ pc' = "specifically"
  /\ UNCHANGED <<inst, problem, values, binding_constraints>>

Specifically ==
  /\ pc = "specifically"
  /\ out' = out \o SpecificallyLines(values)
  /\ pc' = "recommendations"
  /\ UNCHANGED <<inst, problem, values, binding_constraints>>

Recommendations ==
  /\ pc = "recommendations"
  /\ out' = out \o RecommendationLines(binding_constraints)
  /\ pc' = "done"
  /\ UNCHANGED <<inst, problem, values, binding_constraints>>

Next ==
  \/ DefineVariables
  \/ AddObjective
  \/ AddRawMaterial
  \/ AddLaborHours
  \/ AddMachineHours
  \/ Solve
  \/ PrintStatus
  \/ PrintValues
  \/ PrintProfit
  \/ ConstraintAnalysis
  \/ DetailedInsights
  \/ CollectBindingConstraints
  \/ Bottlenecks
  \/ Specifically
  \/ Recommendations

Spec == Init /\ [][Next]_vars

(* ---------------- vocabulary of the properties ---------------- *)

BuildSteps ==
  {"define_variables", "add_objective", "add_raw", "add_labor", "add_machine", "solve"}

AfterSolve == pc \notin BuildSteps

AnalysisPrinted ==
  pc \in {"detailed_insights", "collect_binding", "bottlenecks", "specifically",
          "recommendations", "done"}

BindingCollected == pc \in {"bottlenecks", "specifically", "recommendations", "done"}

ScriptConstraints ==
  << LpConstraintLE(RawName, <<2, 3>>, 120),
     LpConstraintLE(LaborName, <<3, 2>>, 100),
     LpConstraintLE(MachineName, <<1, 1>>, 45) >>

MachineZeroConstraints ==
  << LpConstraintLE(RawName, <<2, 3>>, 120),
     LpConstraintLE(LaborName, <<3, 2>>, 100),
     LpConstraintLE(MachineName, <<1, 1>>, 0) >>

IsScriptProblem ==
  /\ problem.objective = <<50, 60>>
  /\ problem.constraints = ScriptConstraints

IsMachineZeroProblem ==
  /\ problem.objective = <<50, 60>>
  /\ problem.constraints = MachineZeroConstraints

LinesOfKind(kind) == SelectSeq(out, LAMBDA l : l.kind = kind)

NamesOf(lines) == [i \in 1 .. Len(lines) |-> lines[i].name]

OutHas(kind, name) == \E i \in 1 .. Len(out) : out[i].kind = kind /\ out[i].name = name

\* slack of the i-th stored constraint at the solved values, from first principles
SlackAt(i) ==
  (0 - problem.constraints[i].constant)
    - (problem.constraints[i].coefs[1] * values[1]
       + problem.constraints[i].coefs[2] * values[2])

\* the i-th constraint added (1 raw material, 2 labor hours, 3 machine hours)
\* is binding at the solved values
BindingAt(i) == SlackAt(i) = 0

(* ---------------- C1 ---------------- *)

\* C1 as stated: for the hard-coded instance the solve yields x_A = 15,
\* x_B = 30 with objective value 2550.
C1_Original ==
  (AfterSolve /\ IsScriptProblem) =>
    /\ problem.status = "Optimal"
    /\ values = <<15, 30>>
    /\ ExprValue(problem.objective, values) = 2550

\* C1 (amended): for the hard-coded instance the solve ends Optimal at
\* x_A = 12, x_B = 32 with objective value 2520; that point satisfies the three
\* constraints and every other feasible non-negative integer point has a
\* strictly smaller profit.
C1_UniqueOptimum ==
  (AfterSolve /\ IsScriptProblem) =>
    /\ problem.status = "Optimal"
    /\ values = <<12, 32>>
    /\ 50 * values[1] + 60 * values[2] = 2520
    /\ 2 * values[1] + 3 * values[2] <= 120
    /\ 3 * values[1] + 2 * values[2] <= 100
    /\ values[1] + values[2] <= 45
    /\ \A q \in (0 .. 120) \X (0 .. 120) :
         ( /\ q # values
           /\ 2 * q[1] + 3 * q[2] <= 120
           /\ 3 * q[1] + 2 * q[2] <= 100
           /\ q[1] + q[2] <= 45 )
         => 50 * q[1] + 60 * q[2] < 2520
    /\ (pc \in {"constraint_analysis", "detailed_insights", "collect_binding",
                "bottlenecks", "specifically", "recommendations", "done"}
          => LinesOfKind("objective")[1].val = 2520)

C1_Witness == pc = "done" /\ IsScriptProblem /\ values = <<12, 32>>

(* ---------------- C2 ---------------- *)

\* C2: whenever the solve ended Optimal, for every instance, the reported x_A
\* and x_B are non-negative integers and every stored constraint has
\* slack = RHS - LHS >= 0 at them, as does every slack the analysis printed.
C2_OptimalIsFeasible ==
  (AfterSolve /\ problem.status = "Optimal") =>
    /\ values[1] \in Nat
    /\ values[2] \in Nat
    /\ \A i \in 1 .. Len(problem.constraints) : SlackAt(i) >= 0
    /\ \A i \in 1 .. Len(out) : out[i].kind = "analysis" => out[i].slack >= 0

C2_Witness ==
  /\ pc = "done"
  /\ problem.status = "Optimal"
  /\ ~IsScriptProblem
  /\ Len(LinesOfKind("analysis")) = 3
  /\ values[1] + values[2] > 0

(* ---------------- C3 ---------------- *)

\* C3: when the status is not Optimal the reporter prints the status and no
\* value-dependent output (no variable values, objective, LHS/slack lines,
\* insights or recommendations).
C3_NonOptimalPrintsOnlyStatus ==
  (problem.status # "Optimal") =>
    \A i \in 1 .. Len(out) : out[i].kind = "status"

(* ---------------- C4 ---------------- *)

\* C4 as stated: with the Machine Hours capacity tightened to 0 and all else
\* as in the script, the solve ends with status Infeasible.
C4_Original ==
  (AfterSolve /\ IsMachineZeroProblem) => problem.status = "Infeasible"

\* C4 (amended): with the Machine Hours capacity tightened to 0 and all else
\* as in the script, the problem has exactly one feasible point, x_A = x_B = 0,
\* and the solve ends with status Optimal at that point with objective 0.
C4_MachineZeroOptimalAtOrigin ==
  (AfterSolve /\ IsMachineZeroProblem) =>
    /\ problem.status = "Optimal"
    /\ values = <<0, 0>>
    /\ 50 * values[1] + 60 * values[2] = 0
    /\ \A q \in (0 .. 120) \X (0 .. 120) :
         ( /\ 2 * q[1] + 3 * q[2] <= 120
           /\ 3 * q[1] + 2 * q[2] <= 100
           /\ q[1] + q[2] <= 0 )
         <=> q = <<0, 0>>

C4_Witness == pc = "done" /\ IsMachineZeroProblem /\ problem.status = "Optimal"

(* ---------------- C5 ---------------- *)

\* C5: the analysis loop prints, per stored constraint and in insertion order,
\* RHS = -constant, LHS = the expression at the solved values, slack = RHS - LHS
\* and BINDING exactly when LHS = RHS (SLACK otherwise); binding_constraints
\* holds exactly the names printed as BINDING, in the same order.
C5_BindingClassification ==
  /\ AnalysisPrinted =>
       LET lines == LinesOfKind("analysis")
       IN /\ Len(lines) = Len(problem.constraints)
          /\ \A i \in 1 .. Len(lines) :
               /\ lines[i].name = problem.constraints[i].name
               /\ lines[i].rhs = 0 - problem.constraints[i].constant
               /\ lines[i].val = problem.constraints[i].coefs[1] * values[1]
                                 + problem.constraints[i].coefs[2] * values[2]
               /\ lines[i].slack = lines[i].rhs - lines[i].val
               /\ lines[i].cls \in {"BINDING", "SLACK"}
               /\ lines[i].cls = "BINDING" <=> lines[i].val = lines[i].rhs
  /\ BindingCollected =>
       binding_constraints =
         NamesOf(SelectSeq(LinesOfKind("analysis"), LAMBDA l : l.cls = "BINDING"))

C5_Witness ==
  /\ pc = "done"
  /\ Len(binding_constraints) = 2
  /\ \E i \in 1 .. Len(out) : out[i].kind = "analysis" /\ out[i].cls = "SLACK"

(* ---------------- C6 ---------------- *)

\* C6: once the recommendations are printed, the recommendation line of each
\* of the Raw Material, Labor Hours and Machine Hours constraints is present
\* iff that constraint is binding at the solved point, the fallback line is
\* present iff no constraint is binding, and at least one recommendation line
\* is present.
C6_RecommendationsKeyedByBinding ==
  (pc = "done") =>
    /\ OutHas("recommendation", "raw") <=> BindingAt(1)
    /\ OutHas("recommendation", "labor") <=> BindingAt(2)
    /\ OutHas("recommendation", "machine") <=> BindingAt(3)
    /\ OutHas("recommendation", "fallback") <=> ~ \E i \in 1 .. 3 : BindingAt(i)
    /\ Len(LinesOfKind("recommendation")) >= 1

(* ---------------- C7 ---------------- *)

\* C7: the status starts NotSolved, changes only in the solve step, there from
\* NotSolved to one of Optimal, Infeasible, Unbounded, Undefined, and never
\* changes again (in particular never returns to NotSolved).
C7_StatusOneWay ==
  [][ /\ (pc # "solve" => problem'.status = problem.status)
      /\ (pc = "solve" =>
            /\ problem.status = "NotSolved"
            /\ problem'.status \in {"Optimal", "Infeasible", "Unbounded", "Undefined"})
      /\ (pc \in BuildSteps => problem.status = "NotSolved")
      /\ (problem.status # "NotSolved" => problem'.status = problem.status) ]_vars

C7_Witness == pc = "done" /\ problem.status = "Infeasible"

(* ---------------- C8 ---------------- *)

\* C8: every reporter step after the solve leaves the objective, the
\* constraints, the status and the solved variable values unchanged.
C8_ReporterReadOnly ==
  [][ AfterSolve => (problem' = problem /\ values' = values) ]_vars

C8_Witness ==
  /\ pc = "done"
  /\ Len(LinesOfKind("analysis")) = 3
  /\ Len(LinesOfKind("specifically")) = 3
  /\ problem.constraints = ScriptConstraints

(* ---------------- C9 ---------------- *)

\* C9: with the constraints the script stores, at every solved point the usage
\* and slack of the hard-coded 'Specifically' lines equal the LHS and slack the
\* analysis loop printed for the same resource.
C9_SpecificallyAgreesWithAnalysis ==
  (pc \in {"recommendations", "done"} /\ problem.constraints = ScriptConstraints) =>
    LET a == LinesOfKind("analysis")
        s == LinesOfKind("specifically")
    IN /\ Len(a) = 3
       /\ Len(s) = 3
       /\ \A i \in 1 .. 3 :
            /\ s[i].val = a[i].val
            /\ s[i].slack = a[i].slack
            /\ s[i].rhs = a[i].rhs

C9_Witness ==
  /\ pc = "done"
  /\ problem.constraints = ScriptConstraints
  /\ problem.objective # <<50, 60>>
  /\ values # <<12, 32>>

(* ---------------- C10 ---------------- *)

\* C10: for the hard-coded instance exactly the Raw Material (LHS 120) and
\* Labor Hours (LHS 100) constraints are binding, Machine Hours has slack 1
\* (LHS 44 of 45), so binding_constraints is non-empty and the bottlenecks
\* branch is the one printed.
C10_ScriptBottlenecks ==
  (pc \in {"specifically", "recommendations", "done"} /\ IsScriptProblem) =>
    LET a == LinesOfKind("analysis")
    IN /\ binding_constraints = <<LpName(RawName), LpName(LaborName)>>
       /\ binding_constraints # <<>>
       /\ a[1].val = 120 /\ a[1].cls = "BINDING"
       /\ a[2].val = 100 /\ a[2].cls = "BINDING"
       /\ a[3].val = 44 /\ a[3].rhs = 45 /\ a[3].slack = 1 /\ a[3].cls = "SLACK"
       /\ Len(LinesOfKind("bottlenecks")) = 1
       /\ Len(LinesOfKind("no_bottlenecks")) = 0

C10_Witness ==
  /\ pc = "done"
  /\ IsScriptProblem
  /\ Len(binding_constraints) = 2
  /\ Len(LinesOfKind("bottlenecks")) = 1

====
